---- MODULE Spec2Model ----
(***************************************************************************)
(* Evaluation orchestration and traffic-light scoring of the               *)
(* dspy-llm-evaluator: TrafficLightScorer (evaluator/scoring.py),          *)
(* EvaluationPipeline (evaluator/pipeline.py) and the metric contract      *)
(* (evaluator/metrics/*.py).                                               *)
(*                                                                         *)
(* Numbers.  A score is a Python float; the model keeps scores in tenths   *)
(* (One = 1.0), so the thresholds 0.4, 0.5, 0.7 are 4, 5, 7.  The          *)
(* missing-evaluation threshold is kept in hundredths (Hundred = 1.0) and  *)
(* missing_evals / total_evals > t is compared exactly, as                 *)
(* missing * Hundred > t * total.                                          *)
(*                                                                         *)
(* Values.  A Python value (a dict value, a DataFrame cell) is a record    *)
(* [k |-> kind, v |-> payload]: "num" (a float, in tenths), "nan"          *)
(* (float('nan'), what pandas puts in a cell no row dict supplied),        *)
(* "bool", "str", "none" (None) and "list" (a list of strings).            *)
(***************************************************************************)
EXTENDS Integers, Sequences, FiniteSets, TLC

\* 1.0 in tenths
One == 10
\* 1.0 in hundredths (missing_eval_threshold)
Hundred == 100

---------------------------------------------------------------------------
(* Python values *)

Num(x) == [k |-> "num", v |-> x]
NaN == [k |-> "nan", v |-> 0]
Bool(b) == [k |-> "bool", v |-> b]
Str(s) == [k |-> "str", v |-> s]
None == [k |-> "none", v |-> 0]
IntV(n) == [k |-> "int", v |-> n]
List(l) == [k |-> "list", v |-> l]

\* bool(x): nan is a non-zero float, hence true
Truthy(c) ==
    CASE c.k = "bool" -> c.v
      [] c.k = "num" -> c.v # 0
      [] c.k = "nan" -> TRUE
      [] c.k = "str" -> c.v # ""
      [] c.k = "list" -> c.v # <<>>
      [] OTHER -> FALSE

\* x < y and x >= y on floats: every comparison with nan is False
FloatLt(c, y) == c.k = "num" /\ c.v < y
FloatGe(c, y) == c.k = "num" /\ c.v >= y

---------------------------------------------------------------------------
(* Python dicts (insertion-ordered) and DataFrames *)

EmptyDict == [keys |-> <<>>, vals |-> <<>>]

RECURSIVE IndexOf(_, _, _)
IndexOf(seq, x, i) ==
    IF i > Len(seq) THEN 0
    ELSE IF seq[i] = x THEN i
    ELSE IndexOf(seq, x, i + 1)

HasKey(d, key) == IndexOf(d.keys, key, 1) # 0

Get(d, key) == d.vals[IndexOf(d.keys, key, 1)]

\* d[key] = value
Put(d, key, value) ==
    IF HasKey(d, key)
    THEN [d EXCEPT !.vals[IndexOf(d.keys, key, 1)] = value]
    ELSE [keys |-> Append(d.keys, key), vals |-> Append(d.vals, value)]

\* The metric names of the model: the four concrete metrics (Metric.__init__
\* derives the name from the class name) and "custom", a plug-in subclass of
\* the abstract Metric.
MetricNames == {"relevancy", "correctness", "rouge", "toxicity", "custom"}

\* What can stand before a "_score" or "_status" suffix in a column name
Stems == MetricNames \cup {"overall"}

\* col.endswith(suffix), for suffix "_score" or "_status"
EndsWith(col, suffix) == \E m \in Stems : col = m \o suffix

\* col.replace("_score", ""), for a col that ends with "_score"
StripScore(col) == CHOOSE m \in Stems : col = m \o "_score"

SeqToSet(seq) == {seq[i] : i \in 1..Len(seq)}

---------------------------------------------------------------------------
(* TrafficLightScorer *)

Statuses == {"green", "yellow", "red"}

\* TrafficLightScorer.__init__: the three arguments are stored as given
TrafficLightScorer(rouge_thresholds, other_thresholds, missing_eval_threshold) ==
    [rouge_thresholds |-> rouge_thresholds,
     other_thresholds |-> other_thresholds,
     missing_eval_threshold |-> missing_eval_threshold]

Thresholds(self, metric_name) ==
    IF metric_name = "rouge" THEN self.rouge_thresholds ELSE self.other_thresholds

ScoreToStatusSwapped(self, score, metric_name) ==
    IF metric_name = "toxicity"
    THEN IF FloatGe(score, One) THEN "green" ELSE "red"
    ELSE LET lower == Thresholds(self, metric_name)[1]
             upper == Thresholds(self, metric_name)[2]
         IN  IF FloatLt(score, lower) THEN "yellow"
             ELSE IF FloatLt(score, upper) THEN "red"
             ELSE "green"

ScoreToStatusNanUnknown(self, score, metric_name) ==
    IF score.k # "num" THEN "unknown"
    ELSE IF metric_name = "toxicity"
    THEN IF score.v >= One THEN "green" ELSE "red"
    ELSE LET lower == Thresholds(self, metric_name)[1]
             upper == Thresholds(self, metric_name)[2]
         IN  IF score.v < lower THEN "red"
             ELSE IF score.v < upper THEN "yellow"
             ELSE "green"

score_to_status(self, score, metric_name) ==
    IF metric_name = "toxicity"
    THEN IF FloatGe(score, One) THEN "green" ELSE "red"
    ELSE LET lower == Thresholds(self, metric_name)[1]
             upper == Thresholds(self, metric_name)[2]
         IN  IF FloatLt(score, lower) THEN "red"
             ELSE IF FloatLt(score, upper) THEN "yellow"
             ELSE "green"

\* "red" in statuses
In(x, statuses) == \E i \in 1..Len(statuses) : statuses[i] = x

\* total_evals > 0 and missing_evals / total_evals > self.missing_eval_threshold
TooManyMissing(self, missing_evals, total_evals) ==
    /\ total_evals > 0
    /\ missing_evals * Hundred > self.missing_eval_threshold * total_evals

ComputeOverallStatusYellowFirst(self, statuses, missing_evals, total_evals) ==
    IF statuses = <<>> THEN "red"
    ELSE IF TooManyMissing(self, missing_evals, total_evals)
    THEN IF In("red", statuses) THEN "red" ELSE "yellow"
    ELSE IF In("yellow", statuses) THEN "yellow"
    ELSE IF In("red", statuses) THEN "red"
    ELSE "green"

ComputeOverallStatusCapAtEqual(self, statuses, missing_evals, total_evals) ==
    IF statuses = <<>> THEN "red"
    ELSE IF total_evals > 0
            /\ missing_evals * Hundred >= self.missing_eval_threshold * total_evals
    THEN IF In("red", statuses) THEN "red" ELSE "yellow"
    ELSE IF In("red", statuses) THEN "red"
    ELSE IF In("yellow", statuses) THEN "yellow"
    ELSE "green"

ComputeOverallStatusEmptyGreen(self, statuses, missing_evals, total_evals) ==
    IF TooManyMissing(self, missing_evals, total_evals)
    THEN IF In("red", statuses) THEN "red" ELSE "yellow"
    ELSE IF In("red", statuses) THEN "red"
    ELSE IF In("yellow", statuses) THEN "yellow"
    ELSE "green"

ComputeOverallStatusEscalate(self, statuses, missing_evals, total_evals) ==
    IF Len(statuses) = 0 THEN "red"
    ELSE IF In("red", statuses) THEN "red"
    ELSE IF Cardinality({i \in 1..Len(statuses) : statuses[i] = "yellow"}) >= 2 THEN "red"
    ELSE IF In("yellow", statuses) THEN "yellow"
    ELSE IF TooManyMissing(self, missing_evals, total_evals) THEN "yellow"
    ELSE "green"

ComputeOverallStatusFirstWins(self, statuses, missing_evals, total_evals) ==
    IF Len(statuses) = 0 THEN "red"
    ELSE IF TooManyMissing(self, missing_evals, total_evals) /\ statuses[1] = "green"
    THEN "yellow"
    ELSE statuses[1]

ComputeOverallStatusLastWins(self, statuses, missing_evals, total_evals) ==
    IF Len(statuses) = 0 THEN "red"
    ELSE IF TooManyMissing(self, missing_evals, total_evals)
            /\ statuses[Len(statuses)] = "green"
    THEN "yellow"
    ELSE statuses[Len(statuses)]

compute_overall_status(self, statuses, missing_evals, total_evals) ==
    IF statuses = <<>> THEN "red"
    ELSE IF TooManyMissing(self, missing_evals, total_evals)
    THEN IF In("red", statuses) THEN "red" ELSE "yellow"
    ELSE IF In("red", statuses) THEN "red"
    ELSE IF In("yellow", statuses) THEN "yellow"
    ELSE "green"

\* [row[col] for col in row.index if col.endswith("_status")]
RECURSIVE StatusesOf(_, _)
StatusesOf(row, i) ==
    IF i > Len(row.keys) THEN <<>>
    ELSE IF EndsWith(row.keys[i], "_status")
    THEN <<row.vals[i].v>> \o StatusesOf(row, i + 1)
    ELSE StatusesOf(row, i + 1)

ComputeRowStatusCountErrors(self, row) ==
    LET statuses == StatusesOf(row, 1)
        missing == IF HasKey(row, "errors") /\ Get(row, "errors").k = "list"
                   THEN Len(Get(row, "errors").v) ELSE 0
    IN  IF HasKey(row, "toxicity_is_toxic") /\ Truthy(Get(row, "toxicity_is_toxic"))
        THEN "red"
        ELSE compute_overall_status(self, statuses, missing, Len(statuses) + missing)

ComputeRowStatusNoVeto(self, row) ==
    compute_overall_status(self, StatusesOf(row, 1), 0, 0)

compute_row_status(self, row) ==
    IF HasKey(row, "toxicity_is_toxic") /\ Truthy(Get(row, "toxicity_is_toxic"))
    THEN "red"
    ELSE compute_overall_status(self, StatusesOf(row, 1), 0, 0)

\* A DataFrame: its columns in order, and one tuple of cells per row
EmptyFrame == [columns |-> <<>>, rows |-> <<>>]

\* One row of a DataFrame as a Series (a dict over the columns)
Row(df, i) == [keys |-> df.columns, vals |-> df.rows[i]]

Column(df, col) ==
    [i \in 1..Len(df.rows) |-> df.rows[i][IndexOf(df.columns, col, 1)]]

\* df[col] = values: a new column is appended, an existing one overwritten
SetColumn(df, col, values) ==
    LET c == IndexOf(df.columns, col, 1)
    IN  IF c # 0
        THEN [df EXCEPT !.rows =
                 [i \in 1..Len(df.rows) |-> [df.rows[i] EXCEPT ![c] = values[i]]]]
        ELSE [columns |-> Append(df.columns, col),
              rows |-> [i \in 1..Len(df.rows) |-> Append(df.rows[i], values[i])]]

\* The loop of score_results over the columns the frame had when it started
RECURSIVE ScoreColumns(_, _, _, _)
ScoreColumns(self, df, cols, i) ==
    IF i > Len(cols) THEN df
    ELSE IF EndsWith(cols[i], "_score")
    THEN LET metric_name == StripScore(cols[i])
             status_col == metric_name \o "_status"
             scores == Column(df, cols[i])
         IN  ScoreColumns(self,
                 SetColumn(df, status_col,
                     [r \in 1..Len(df.rows) |->
                         Str(score_to_status(self, scores[r], metric_name))]),
                 cols, i + 1)
    ELSE ScoreColumns(self, df, cols, i + 1)

\* "red" if x else "green" over the toxicity_is_toxic column
ToxicityStatusColumn(df) ==
    IF IndexOf(df.columns, "toxicity_is_toxic", 1) # 0
    THEN SetColumn(df, "toxicity_status",
             [r \in 1..Len(df.rows) |->
                 IF Truthy(Column(df, "toxicity_is_toxic")[r])
                 THEN Str("red") ELSE Str("green")])
    ELSE df

score_results(self, results_df) ==
    LET df1 == ScoreColumns(self, results_df, results_df.columns, 1)
        df2 == ToxicityStatusColumn(df1)
    IN  SetColumn(df2, "overall_status",
            [r \in 1..Len(df2.rows) |-> Str(compute_row_status(self, Row(df2, r)))])

ScoreResultsInputAliased(self, results_df) == score_results(self, results_df)

\* The table object given to score_results, as it is once the call returned:
\* the method works on df = results_df.copy() and writes to df only
ScoreResultsInput(self, results_df) == results_df

---------------------------------------------------------------------------
(* The metric contract: evaluator/metrics *)

\* s.strip() over the strings of the model: "" and " " are the blank ones
Strip(s) == IF s \in {"", " "} THEN "" ELSE s

\* Metric.validate_inputs: the message of the ValueError raised, "" when none
validate_inputs(question, response, reference) ==
    IF question.k # "str" \/ Strip(question.v) = ""
    THEN "Question must be a non-empty string"
    ELSE IF response.k # "str"
    THEN "Response must be a string"
    ELSE IF reference.k # "none" /\ reference.k # "str"
    THEN "Reference must be a string or None"
    ELSE ""

\* What a call of evaluate does: it returns a dict or raises.  path records
\* the way taken: "validation" (validate_inputs raised), "short_circuit" (a
\* return before the external evaluator), "ext_failed" (the external
\* evaluator was called and failed), "ext_ok" (it was called and answered)
Returns(d, path) == [raised |-> FALSE, message |-> "", result |-> d, path |-> path]
Raises(msg, path) == [raised |-> TRUE, message |-> msg, result |-> EmptyDict, path |-> path]

Dict2(k1, v1, k2, v2) == Put(Put(EmptyDict, k1, v1), k2, v2)

\* The external evaluator's answer to one call: ext.kind = "raise" (the call
\* fails with ext.message) or "ok" with the fields the evaluator returned.

\* float(x): a float is kept, an int converted, a str parsed (the strings of
\* the model that parse are listed), and anything else is a TypeError or a
\* ValueError.  FloatOf is the value when FloatParses
FloatParses(x) ==
    \/ x.k \in {"num", "nan", "int"}
    \/ x.k = "str" /\ x.v \in {"0.5", "1.5", "-0.5", "nan"}

FloatOf(x) ==
    CASE x.k = "int" -> Num(x.v * One)
      [] x.k = "str" /\ x.v = "0.5" -> Num(5)
      [] x.k = "str" /\ x.v = "1.5" -> Num(15)
      [] x.k = "str" /\ x.v = "-0.5" -> Num(-5)
      [] x.k = "str" /\ x.v = "nan" -> NaN
      [] OTHER -> x

ClampUpperOnly(score) ==
    IF FloatLt(score, One) THEN score ELSE Num(One)

\* max(0.0, min(1.0, score)); min and max keep their first argument unless
\* the second compares below (above) it, so nan becomes 1.0
Clamp(score) ==
    LET m == IF FloatLt(score, One) THEN score ELSE Num(One)
    IN  IF m.k = "num" /\ m.v > 0 THEN m ELSE Num(0)

\* RelevancyProgram.forward and CorrectnessProgram.forward, after the predictor
\* returned ext
ProgramForward(ext) ==
    Dict2("score", IF FloatParses(ext.score) THEN Clamp(FloatOf(ext.score)) ELSE Num(0),
          "explanation", Str(ext.explanation))

RelevancyEvaluateNoCatch(question, response, reference, ext) ==
    LET err == validate_inputs(question, response, None)
    IN  IF err # "" THEN Raises(err, "validation")
        ELSE IF Strip(response.v) = ""
        THEN Returns(Dict2("score", Num(0), "explanation", Str("Empty response")),
                     "short_circuit")
        ELSE IF ext.kind = "raise"
        THEN Raises(ext.message, "ext_failed")
        ELSE Returns(ProgramForward(ext), "ext_ok")

RelevancyEvaluateNoShortCircuit(question, response, reference, ext) ==
    LET err == validate_inputs(question, response, None)
    IN  IF err # "" THEN Raises(err, "validation")
        ELSE IF ext.kind = "raise"
        THEN Returns(Dict2("score", Num(0), "explanation",
                           Str("Error evaluating relevancy: " \o ext.message)),
                     "ext_failed")
        ELSE Returns(ProgramForward(ext), "ext_ok")

RelevancyEvaluate(question, response, reference, ext) ==
    LET err == validate_inputs(question, response, None)
    IN  IF err # "" THEN Raises(err, "validation")
        ELSE IF Strip(response.v) = ""
        THEN Returns(Dict2("score", Num(0), "explanation", Str("Empty response")),
                     "short_circuit")
        ELSE IF ext.kind = "raise"
        THEN Returns(Dict2("score", Num(0), "explanation",
                           Str("Error evaluating relevancy: " \o ext.message)),
                     "ext_failed")
        ELSE Returns(ProgramForward(ext), "ext_ok")

CorrectnessEvaluateResponseFirst(question, response, reference, ext) ==
    LET err == validate_inputs(question, response, reference)
    IN  IF err # "" THEN Raises(err, "validation")
        ELSE IF Strip(response.v) = ""
        THEN Returns(Dict2("score", Num(0), "explanation", Str("Empty response")),
                     "short_circuit")
        ELSE IF ~Truthy(reference)
        THEN Returns(Dict2("score", Num(0), "explanation",
                 Str("Cannot evaluate correctness without a reference answer")),
                 "short_circuit")
        ELSE IF ext.kind = "raise"
        THEN Returns(Dict2("score", Num(0), "explanation",
                           Str("Error evaluating correctness: " \o ext.message)),
                     "ext_failed")
        ELSE Returns(ProgramForward(ext), "ext_ok")

CorrectnessEvaluate(question, response, reference, ext) ==
    LET err == validate_inputs(question, response, reference)
    IN  IF err # "" THEN Raises(err, "validation")
        ELSE IF ~Truthy(reference)
        THEN Returns(Dict2("score", Num(0), "explanation",
                 Str("Cannot evaluate correctness without a reference answer")),
                 "short_circuit")
        ELSE IF Strip(response.v) = ""
        THEN Returns(Dict2("score", Num(0), "explanation", Str("Empty response")),
                     "short_circuit")
        ELSE IF ext.kind = "raise"
        THEN Returns(Dict2("score", Num(0), "explanation",
                           Str("Error evaluating correctness: " \o ext.message)),
                     "ext_failed")
        ELSE Returns(ProgramForward(ext), "ext_ok")

\* RougeMetric.evaluate; ext.f is <<rouge-1 f, rouge-2 f, rouge-l f>>
RougeEvaluate(question, response, reference, ext) ==
    LET err == validate_inputs(question, response, reference)
    IN  IF err # "" THEN Raises(err, "validation")
        ELSE IF ~Truthy(reference)
        THEN Returns(Dict2("score", Num(0), "explanation",
                 Str("Cannot calculate ROUGE score without a reference answer")),
                 "short_circuit")
        ELSE IF Strip(response.v) = ""
        THEN Returns(Dict2("score", Num(0), "explanation", Str("Empty response")),
                     "short_circuit")
        ELSE IF ext.kind = "raise"
        THEN Returns(Dict2("score", Num(0), "explanation",
                           Str("Error calculating ROUGE score: " \o ext.message)),
                     "ext_failed")
        ELSE LET avg_f1 == (ext.f[1] + ext.f[2] + ext.f[3]) \div 3
             IN  Returns(Put(Put(Put(Put(Put(EmptyDict,
                     "score", Num(avg_f1)),
                     "rouge_1_f", Num(ext.f[1])),
                     "rouge_2_f", Num(ext.f[2])),
                     "rouge_l_f", Num(ext.f[3])),
                     "explanation", Str("ROUGE F1")), "ext_ok")

\* s.lower() over the strings of the model
Lower(s) ==
    CASE s = "True" -> "true"
      [] s = "Yes" -> "yes"
      [] s = "False" -> "false"
      [] OTHER -> s

\* ToxicityProgram.forward, after the predictor returned ext
ToxicityForward(ext) ==
    LET is_toxic == IF ext.is_toxic.k = "str"
                    THEN Lower(ext.is_toxic.v) \in {"true", "yes", "1"}
                    ELSE Truthy(ext.is_toxic)
    IN  Put(Put(Put(EmptyDict,
            "is_toxic", Bool(is_toxic)),
            "explanation", Str(ext.explanation)),
            "toxicity_type", Str(IF is_toxic THEN ext.toxicity_type ELSE "none"))

ToxicityEvaluateErrorZero(question, response, reference, ext) ==
    LET err == validate_inputs(question, response, None)
    IN  IF err # "" THEN Raises(err, "validation")
        ELSE IF Strip(response.v) = ""
        THEN Returns(Put(Put(Put(Put(EmptyDict,
                 "is_toxic", Bool(FALSE)),
                 "explanation", Str("Empty response")),
                 "toxicity_type", Str("none")),
                 "score", Num(One)), "short_circuit")
        ELSE IF ext.kind = "raise"
        THEN Returns(Put(Put(Put(Put(EmptyDict,
                 "is_toxic", Bool(FALSE)),
                 "explanation", Str("Error evaluating toxicity: " \o ext.message)),
                 "toxicity_type", Str("error")),
                 "score", Num(0)), "ext_failed")
        ELSE LET result == ToxicityForward(ext)
             IN  Returns(Put(result, "score",
                     IF Truthy(Get(result, "is_toxic")) THEN Num(0) ELSE Num(One)),
                     "ext_ok")

ToxicityEvaluate(question, response, reference, ext) ==
    LET err == validate_inputs(question, response, None)
    IN  IF err # "" THEN Raises(err, "validation")
        ELSE IF Strip(response.v) = ""
        THEN Returns(Put(Put(Put(Put(EmptyDict,
                 "is_toxic", Bool(FALSE)),
                 "explanation", Str("Empty response")),
                 "toxicity_type", Str("none")),
                 "score", Num(One)), "short_circuit")
        ELSE IF ext.kind = "raise"
        THEN Returns(Put(Put(Put(Put(EmptyDict,
                 "is_toxic", Bool(FALSE)),
                 "explanation", Str("Error evaluating toxicity: " \o ext.message)),
                 "toxicity_type", Str("error")),
                 "score", Num(One)), "ext_failed")
        ELSE LET result == ToxicityForward(ext)
             IN  Returns(Put(result, "score",
                     IF Truthy(Get(result, "is_toxic")) THEN Num(0) ELSE Num(One)),
                     "ext_ok")

\* A plug-in subclass of the abstract Metric: its evaluate returns the dict
\* the plug-in built, or lets its exception out
CustomEvaluate(question, response, reference, ext) ==
    IF ext.kind = "raise" THEN Raises(ext.message, "ext_failed")
    ELSE Returns(Dict2("score", ext.score, "explanation", Str(ext.explanation)),
                 "ext_ok")

\* metric.evaluate(question, response, reference), by the metric's class
MetricEvaluate(name, question, response, reference, ext) ==
    CASE name = "relevancy" -> RelevancyEvaluate(question, response, reference, ext)
      [] name = "correctness" -> CorrectnessEvaluate(question, response, reference, ext)
      [] name = "rouge" -> RougeEvaluate(question, response, reference, ext)
      [] name = "toxicity" -> ToxicityEvaluate(question, response, reference, ext)
      [] OTHER -> CustomEvaluate(question, response, reference, ext)

---------------------------------------------------------------------------
(* EvaluationPipeline *)

\* for key, value in metric_result.items(): results[f"{metric.name}_{key}"] = value
RECURSIVE MergeResult(_, _, _, _)
MergeResult(results, name, metric_result, i) ==
    IF i > Len(metric_result.keys) THEN results
    ELSE MergeResult(
             Put(results, name \o "_" \o metric_result.keys[i], metric_result.vals[i]),
             name, metric_result, i + 1)

RECURSIVE MetricLoopAbort(_, _, _, _, _, _, _)
MetricLoopAbort(ms, question, response, reference, exts, j, acc) ==
    IF j > Len(ms) THEN acc
    ELSE LET out == MetricEvaluate(ms[j], question, response, reference, exts[j])
         IN  IF out.raised
             THEN [acc EXCEPT
                      !.errors = Append(@, ms[j] \o ": " \o out.message),
                      !.outcomes = Append(@, out)]
             ELSE MetricLoopAbort(ms, question, response, reference, exts, j + 1,
                      [acc EXCEPT
                          !.results = MergeResult(@, ms[j], out.result, 1),
                          !.outcomes = Append(@, out)])

\* The loop of evaluate_single over self.metrics from metric j on; exts[j] is
\* what the external evaluator answers to metric j.  acc holds results, errors
\* and the outcome of each call made so far.
RECURSIVE MetricLoop(_, _, _, _, _, _, _)
MetricLoop(ms, question, response, reference, exts, j, acc) ==
    IF j > Len(ms) THEN acc
    ELSE LET out == MetricEvaluate(ms[j], question, response, reference, exts[j])
             next ==
                 IF out.raised
                 THEN [acc EXCEPT
                          !.errors = Append(@, ms[j] \o ": " \o out.message),
                          !.outcomes = Append(@, out)]
                 ELSE [acc EXCEPT
                          !.results = MergeResult(@, ms[j], out.result, 1),
                          !.outcomes = Append(@, out)]
         IN  MetricLoop(ms, question, response, reference, exts, j + 1, next)

EvaluateSingleAlwaysErrors(ms, question, response, reference, exts) ==
    LET acc == MetricLoop(ms, question, response, reference, exts, 1,
                          [results |-> EmptyDict, errors |-> <<>>, outcomes |-> <<>>])
    IN  [results |-> Put(acc.results, "errors", List(acc.errors)),
         outcomes |-> acc.outcomes]

\* evaluate_single: .results is the dict returned, .outcomes what each metric did
evaluate_single(ms, question, response, reference, exts) ==
    LET acc == MetricLoop(ms, question, response, reference, exts, 1,
                          [results |-> EmptyDict, errors |-> <<>>, outcomes |-> <<>>])
    IN  [results |-> IF acc.errors # <<>>
                     THEN Put(acc.results, "errors", List(acc.errors))
                     ELSE acc.results,
         outcomes |-> acc.outcomes]

\* pd.DataFrame(list of dicts): the columns are the keys in order of first
\* appearance, and a cell whose row dict has no such key is nan
RECURSIVE AddKeys(_, _, _)
AddKeys(cols, keys, j) ==
    IF j > Len(keys) THEN cols
    ELSE AddKeys(IF IndexOf(cols, keys[j], 1) = 0 THEN Append(cols, keys[j]) ELSE cols,
                 keys, j + 1)

RECURSIVE UnionKeys(_, _, _)
UnionKeys(dicts, i, cols) ==
    IF i > Len(dicts) THEN cols
    ELSE UnionKeys(dicts, i + 1, AddKeys(cols, dicts[i].keys, 1))

DataFrame(dicts) ==
    LET cols == UnionKeys(dicts, 1, <<>>)
    IN  [columns |-> cols,
         rows |-> [i \in 1..Len(dicts) |->
                      [c \in 1..Len(cols) |->
                          IF HasKey(dicts[i], cols[c]) THEN Get(dicts[i], cols[c])
                          ELSE NaN]]]

AddOriginalNoId(row, row_results) ==
    LET question == Get(row, "question")
        response == Get(row, "response")
        reference == IF HasKey(row, "reference") THEN Get(row, "reference") ELSE None
        r1 == Put(Put(row_results, "question", question), "response", response)
    IN  IF reference.k # "none" THEN Put(r1, "reference", reference) ELSE r1

\* The body of evaluate's loop for one row of data, after evaluate_single
\* returned row_results: the original fields are added to the dict
AddOriginal(row, row_results) ==
    LET question == Get(row, "question")
        response == Get(row, "response")
        reference == IF HasKey(row, "reference") THEN Get(row, "reference") ELSE None
        r1 == Put(Put(row_results, "question", question), "response", response)
        r2 == IF reference.k # "none" THEN Put(r1, "reference", reference) ELSE r1
    IN  IF HasKey(row, "id") THEN Put(r2, "id", Get(row, "id")) ELSE r2

\* results[col].value_counts().to_dict(): the count of each value that occurs
ValueCounts(df, col) ==
    LET cells == Column(df, col)
        occurring == {cells[i].v : i \in 1..Len(df.rows)}
    IN  [x \in occurring |-> Cardinality({i \in 1..Len(df.rows) : cells[i].v = x})]

RECURSIVE SumScores(_, _)
SumScores(cells, i) ==
    IF i > Len(cells) THEN 0
    ELSE (IF cells[i].k = "num" THEN cells[i].v ELSE 0) + SumScores(cells, i + 1)

\* results[col].mean(): nan cells are skipped; kept as <<sum, count>>
Mean(df, col) ==
    LET cells == Column(df, col)
    IN  [k |-> "mean",
         v |-> <<SumScores(cells, 1),
                 Cardinality({i \in 1..Len(df.rows) : cells[i].k = "num"})>>]

\* The loop of summarize over self.metrics
RECURSIVE AverageScores(_, _, _, _)
AverageScores(summary, ms, results, j) ==
    IF j > Len(ms) THEN summary
    ELSE LET score_col == ms[j] \o "_score"
         IN  AverageScores(
                 IF IndexOf(results.columns, score_col, 1) # 0
                 THEN Put(summary, "avg_" \o ms[j] \o "_score", Mean(results, score_col))
                 ELSE summary,
                 ms, results, j + 1)

SummarizeErrorsAllRows(ms, results) ==
    LET s1 == Put(Put(EmptyDict,
                  "status_distribution",
                  [k |-> "dict", v |-> ValueCounts(results, "overall_status")]),
                  "total_evaluated", IntV(Len(results.rows)))
        s2 == AverageScores(s1, ms, results, 1)
        s3 == IF IndexOf(results.columns, "toxicity_is_toxic", 1) # 0
              THEN Put(s2, "toxic_count",
                       IntV(Cardinality({i \in 1..Len(results.rows) :
                           Column(results, "toxicity_is_toxic")[i] = Bool(TRUE)})))
              ELSE s2
    IN  IF IndexOf(results.columns, "errors", 1) # 0
        THEN Put(s3, "errors_count", IntV(Len(results.rows)))
        ELSE s3

summarize(ms, results) ==
    LET s1 == Put(Put(EmptyDict,
                  "status_distribution",
                  [k |-> "dict", v |-> ValueCounts(results, "overall_status")]),
                  "total_evaluated", IntV(Len(results.rows)))
        s2 == AverageScores(s1, ms, results, 1)
        s3 == IF IndexOf(results.columns, "toxicity_is_toxic", 1) # 0
              THEN Put(s2, "toxic_count",
                       IntV(Cardinality({i \in 1..Len(results.rows) :
                           Column(results, "toxicity_is_toxic")[i] = Bool(TRUE)})))
              ELSE s2
    IN  IF IndexOf(results.columns, "errors", 1) # 0
        THEN Put(s3, "errors_count",
                 IntV(Cardinality({i \in 1..Len(results.rows) :
                     Column(results, "errors")[i].k # "nan"})))
        ELSE s3

---------------------------------------------------------------------------
(* Bounds and inputs *)

\* Records in a batch
MaxRecords == 2
\* Metrics in a pipeline built through the API
MaxMetrics == 2
\* Statuses passed to compute_overall_status
MaxStatuses == 3
\* missing_evals and total_evals passed to compute_overall_status
MaxEvals == 10
\* Rows of a table passed to score_results directly
MaxRows == 2

RECURSIVE SeqsUpTo(_, _)
SeqsUpTo(S, n) ==
    IF n = 0 THEN {<<>>}
    ELSE LET shorter == SeqsUpTo(S, n - 1)
         IN  shorter \cup {Append(t, x) : t \in {u \in shorter : Len(u) = n - 1}, x \in S}

Distinct(seq) == \A i, j \in 1..Len(seq) : i # j => seq[i] # seq[j]

\* self.metrics: any list of up to MaxMetrics different metrics
MetricLists == {ms \in SeqsUpTo(MetricNames, MaxMetrics) : Distinct(ms)}

\* The scorers of the model: the default one; the one main builds with
\* METRICS_THRESHOLD_ROUGE=0.6 and METRICS_THRESHOLD_RELEVANCY=0.3; and two
\* built through the constructor, which stores what it is given
ScorerConfigs ==
    {TrafficLightScorer(<<4, 5>>, <<4, 7>>, 5),
     TrafficLightScorer(<<5, 6>>, <<4, 3>>, 5),
     TrafficLightScorer(<<4, 5>>, <<6, 6>>, 50),
     TrafficLightScorer(<<2, 9>>, <<4, 7>>, 0)}

\* The scorers a pipeline is built with in the model: the first two
PipelineScorers ==
    {TrafficLightScorer(<<4, 5>>, <<4, 7>>, 5),
     TrafficLightScorer(<<5, 6>>, <<4, 3>>, 5)}

\* What the external evaluator of a metric may answer in a batch run
PipelineExt(name) ==
    CASE name \in {"relevancy", "correctness"} ->
             {[kind |-> "raise", message |-> "LM call failed"],
              [kind |-> "ok", score |-> Num(5), explanation |-> "partly"],
              [kind |-> "ok", score |-> Num(9), explanation |-> "good"]}
      [] name = "rouge" ->
             {[kind |-> "raise", message |-> "rouge failed"],
              [kind |-> "ok", f |-> <<6, 3, 6>>],
              [kind |-> "ok", f |-> <<10, 10, 10>>]}
      [] name = "toxicity" ->
             {[kind |-> "raise", message |-> "LM call failed"],
              [kind |-> "ok", is_toxic |-> Str("true"), explanation |-> "insult",
               toxicity_type |-> "harassment"],
              [kind |-> "ok", is_toxic |-> Str("false"), explanation |-> "clean",
               toxicity_type |-> "none"]}
      [] OTHER ->
             {[kind |-> "raise", message |-> "plug-in failed"],
              [kind |-> "ok", score |-> Num(2), explanation |-> "poor"],
              [kind |-> "ok", score |-> Num(9), explanation |-> "good"]}

RECURSIVE ExtSeqs(_, _)
ExtSeqs(ms, j) ==
    IF j > Len(ms) THEN {<<>>}
    ELSE {<<e>> \o t : e \in PipelineExt(ms[j]), t \in ExtSeqs(ms, j + 1)}

\* The records of the model, as question, response, reference: a complete
\* one, one with an empty response, one whose reference the CSV left empty
\* (nan), and one with a blank question
RecordKinds ==
    {<<Str("Q"), Str("A"), Str("R")>>,
     <<Str("Q"), Str(""), Str("R")>>,
     <<Str("Q"), Str("A"), NaN>>,
     <<Str(" "), Str("A"), Str("R")>>}

\* The columns of the input table: without and with reference and id, and
\* two that lack a required column
Layouts ==
    {<<"question", "response">>,
     <<"id", "question", "response", "reference">>,
     <<"question", "reference">>,
     <<"response">>}

\* Row i of a table with the columns cols, holding record rec; its id is 100 + i
InputRow(cols, rec, i) ==
    [c \in 1..Len(cols) |->
        CASE cols[c] = "question" -> rec[1]
          [] cols[c] = "response" -> rec[2]
          [] cols[c] = "reference" -> rec[3]
          [] OTHER -> IntV(100 + i)]

InputTables ==
    {[columns |-> cols, rows |-> [i \in 1..Len(recs) |-> InputRow(cols, recs[i], i)]] :
        cols \in Layouts,
        recs \in {t \in SeqsUpTo(RecordKinds, MaxRecords) : Len(t) >= 1}}

\* Arguments of the direct calls of the scorer
ScoreInputs == {NaN} \cup {Num(x) : x \in -1..(One + 1)}

StatusLists == SeqsUpTo(Statuses, MaxStatuses)

\* Rows given to compute_row_status: any status (or none) for three metrics,
\* and a toxicity_is_toxic field that is absent, a bool or nan
RowMetrics == <<"relevancy", "rouge", "toxicity">>

RECURSIVE RowWithStatuses(_, _, _)
RowWithStatuses(row, st, j) ==
    IF j > Len(RowMetrics) THEN row
    ELSE RowWithStatuses(
             IF st[j] = "absent" THEN row
             ELSE Put(row, RowMetrics[j] \o "_status", Str(st[j])),
             st, j + 1)

RowInputs ==
    {RowWithStatuses(base, st, 1) :
        base \in {EmptyDict} \cup
                 {Put(EmptyDict, "toxicity_is_toxic", t) : t \in {Bool(TRUE), Bool(FALSE), NaN}},
        st \in [1..Len(RowMetrics) -> Statuses \cup {"absent"}]}

\* Tables given to score_results directly
TableLayouts ==
    {<<"relevancy_score">>,
     <<"relevancy_score", "rouge_score">>,
     <<"toxicity_is_toxic", "toxicity_score">>,
     <<"relevancy_score", "toxicity_is_toxic", "toxicity_score">>,
     <<"question", "toxicity_is_toxic">>,
     <<"relevancy_score", "errors">>,
     <<"question">>}

TableCells(col) ==
    CASE col = "toxicity_is_toxic" -> {Bool(TRUE), Bool(FALSE), NaN}
      [] col = "toxicity_score" -> {Num(0), Num(One), NaN}
      [] col = "question" -> {Str("Q")}
      [] col = "errors" -> {NaN, List(<<"rouge: rouge failed">>),
                            List(<<"rouge: rouge failed", "custom: plug-in failed">>)}
      [] OTHER -> {Num(3), Num(5), Num(8), NaN}

TableRows(cols) ==
    {r \in [1..Len(cols) -> UNION {TableCells(cols[c]) : c \in 1..Len(cols)}] :
        \A c \in 1..Len(cols) : r[c] \in TableCells(cols[c])}

TableInputs ==
    UNION {
        {[columns |-> cols, rows |-> rs] :
            rs \in {t \in SeqsUpTo(TableRows(cols), MaxRows) : Len(t) >= 1}}
        : cols \in TableLayouts}

---------------------------------------------------------------------------
(* State *)

VARIABLES
    scorer,     \* the TrafficLightScorer
    metrics,    \* EvaluationPipeline.metrics: the names of the metrics, in order
    data,       \* the table given to evaluate
    pc,         \* where evaluate (or the caller of the scorer) stands
    results,    \* evaluate's list of row dicts
    outcomes,   \* per row, what each metric's evaluate did (history)
    results_df, \* the table evaluate built and gave to score_results
    scored_df,  \* the table evaluate returns
    summary,    \* what summarize returned
    error,      \* the message of the error evaluate raised, "" when none
    call        \* the direct call of the scorer made, with its result

vars == <<scorer, metrics, data, pc, results, outcomes, results_df, scored_df, summary, error,
          call>>

NoCall == [op |-> "none"]

\* EvaluationPipeline(metrics, scorer) built, and a table to evaluate at hand
Init ==
    /\ scorer \in PipelineScorers
    /\ metrics \in MetricLists
    /\ data \in InputTables
    /\ pc = "start"
    /\ results = <<>>
    /\ outcomes = <<>>
    /\ results_df = EmptyFrame
    /\ scored_df = EmptyFrame
    /\ summary = EmptyDict
    /\ error = ""
    /\ call = NoCall

EvaluateStartQuestionOnly ==
    /\ pc = "start"
    /\ IF IndexOf(data.columns, "question", 1) = 0
       THEN pc' = "failed" /\ error' = "Required column 'question' not found in data"
       ELSE pc' = "rows" /\ error' = error
    /\ UNCHANGED <<scorer, metrics, data, results, outcomes, results_df, scored_df, summary, call>>

\* evaluate, its check of the required columns
EvaluateStart ==
    /\ pc = "start"
    /\ IF IndexOf(data.columns, "question", 1) = 0
       THEN pc' = "failed" /\ error' = "Required column 'question' not found in data"
       ELSE IF IndexOf(data.columns, "response", 1) = 0
       THEN pc' = "failed" /\ error' = "Required column 'response' not found in data"
       ELSE pc' = "rows" /\ error' = error
    /\ UNCHANGED <<scorer, metrics, data, results, outcomes, results_df, scored_df, summary, call>>

\* evaluate, one turn of its loop over the rows of data
EvaluateRow ==
    /\ pc = "rows"
    /\ Len(results) < Len(data.rows)
    /\ \E exts \in ExtSeqs(metrics, 1) :
           LET row == Row(data, Len(results) + 1)
               question == Get(row, "question")
               response == Get(row, "response")
               reference == IF HasKey(row, "reference") THEN Get(row, "reference")
                            ELSE None
               single == evaluate_single(metrics, question, response, reference, exts)
           IN  /\ results' = Append(results, AddOriginal(row, single.results))
               /\ outcomes' = Append(outcomes, single.outcomes)
    /\ UNCHANGED <<scorer, metrics, data, pc, results_df, scored_df, summary, error, call>>

\* evaluate, after its loop: the frame is built and scored
EvaluateScore ==
    /\ pc = "rows"
    /\ Len(results) = Len(data.rows)
    /\ LET df == DataFrame(results)
       IN  /\ scored_df' = score_results(scorer, df)
           /\ results_df' = ScoreResultsInput(scorer, df)
    /\ pc' = "scored"
    /\ UNCHANGED <<scorer, metrics, data, results, outcomes, summary, error, call>>

\* summarize(the table evaluate returned)
Summarize ==
    /\ pc = "scored"
    /\ summary' = summarize(metrics, scored_df)
    /\ pc' = "done"
    /\ UNCHANGED <<scorer, metrics, data, results, outcomes, results_df, scored_df, error, call>>

Next == EvaluateStart \/ EvaluateRow \/ EvaluateScore \/ Summarize

Spec == Init /\ [][Next]_vars

---------------------------------------------------------------------------
(* Direct calls of the scorer's methods *)

InitScorer ==
    /\ scorer \in ScorerConfigs
    /\ metrics = <<>>
    /\ data = EmptyFrame
    /\ pc = "scorer"
    /\ results = <<>>
    /\ outcomes = <<>>
    /\ results_df = EmptyFrame
    /\ scored_df = EmptyFrame
    /\ summary = EmptyDict
    /\ error = ""
    /\ call = NoCall

pipeline_vars ==
    <<scorer, metrics, data, pc, results, outcomes, results_df, scored_df, summary, error>>

CallScoreToStatus ==
    /\ call = NoCall
    /\ \E score \in ScoreInputs, metric_name \in MetricNames :
           call' = [op |-> "score_to_status", score |-> score,
                    metric_name |-> metric_name,
                    result |-> score_to_status(scorer, score, metric_name)]
    /\ UNCHANGED pipeline_vars

CallComputeOverallStatus ==
    /\ call = NoCall
    /\ \E statuses \in StatusLists, missing_evals \in 0..MaxEvals, total_evals \in 0..MaxEvals :
           call' = [op |-> "compute_overall_status", statuses |-> statuses,
                    missing_evals |-> missing_evals, total_evals |-> total_evals,
                    result |-> compute_overall_status(scorer, statuses,
                                                      missing_evals, total_evals)]
    /\ UNCHANGED pipeline_vars

CallComputeRowStatus ==
    /\ call = NoCall
    /\ \E row \in RowInputs :
           call' = [op |-> "compute_row_status", row |-> row,
                    result |-> compute_row_status(scorer, row)]
    /\ UNCHANGED pipeline_vars

CallScoreResults ==
    /\ call = NoCall
    /\ \E table \in TableInputs :
           call' = [op |-> "score_results", results_df |-> table,
                    result |-> score_results(scorer, table)]
    /\ UNCHANGED pipeline_vars

\* score_results(the table the first call of score_results returned)
CallScoreResultsAgain ==
    /\ call # NoCall
    /\ call.op = "score_results"
    /\ call' = [op |-> "score_results_again", results_df |-> call.result,
                result |-> score_results(scorer, call.result)]
    /\ UNCHANGED pipeline_vars

NextScorer ==
    \/ CallScoreToStatus
    \/ CallComputeOverallStatus
    \/ CallComputeRowStatus
    \/ CallScoreResults
    \/ CallScoreResultsAgain

SpecScorer == InitScorer /\ [][NextScorer]_vars

---------------------------------------------------------------------------
(* The pipeline and the direct calls of the scorer together: a behaviour is
   one of Spec or one of SpecScorer *)

InitBoth == Init \/ InitScorer

NextBoth == Next \/ (pc = "scorer" /\ NextScorer)

SpecBoth == InitBoth /\ [][NextBoth]_vars

---------------------------------------------------------------------------
(* Direct calls of the metrics' evaluate *)

\* RelevancyMetric, CorrectnessMetric, RougeMetric, ToxicityMetric
ConcreteMetrics == {"relevancy", "correctness", "rouge", "toxicity"}

\* The arguments of a direct call: strings (empty, blank, ordinary) and values
\* that are no strings
QuestionInputs == {Str("Q"), Str(""), Str(" "), None, NaN, IntV(7)}

ResponseInputs == {Str("A"), Str(""), Str(" "), None, NaN}

ReferenceInputs == {None, Str("R"), Str(""), NaN, IntV(7)}

\* What the external evaluator of a metric may answer to a direct call: it
\* fails, or returns fields of any kind
MetricExt(name) ==
    CASE name \in {"relevancy", "correctness"} ->
             {[kind |-> "raise", message |-> "LM call failed"]} \cup
             {[kind |-> "ok", score |-> x, explanation |-> "because"] :
                 x \in {Num(-5), Num(0), Num(5), Num(One), Num(15), NaN, IntV(1), IntV(2),
                        Str("0.5"), Str("1.5"), Str("-0.5"), Str("nan"), Str("high"),
                        None}}
      [] name = "rouge" ->
             {[kind |-> "raise", message |-> "rouge failed"],
              [kind |-> "ok", f |-> <<0, 0, 0>>],
              [kind |-> "ok", f |-> <<6, 3, 6>>],
              [kind |-> "ok", f |-> <<10, 10, 10>>]}
      [] OTHER ->
             {[kind |-> "raise", message |-> "LM call failed"]} \cup
             {[kind |-> "ok", is_toxic |-> x, explanation |-> "because",
               toxicity_type |-> "harassment"] :
                 x \in {Str("true"), Str("True"), Str("Yes"), Str("1"), Str("false"),
                        Str("False"), Str("maybe"), Bool(TRUE), Bool(FALSE), None, NaN}}

InitMetric ==
    /\ scorer = TrafficLightScorer(<<4, 5>>, <<4, 7>>, 5)
    /\ metrics = <<>>
    /\ data = EmptyFrame
    /\ pc = "metric"
    /\ results = <<>>
    /\ outcomes = <<>>
    /\ results_df = EmptyFrame
    /\ scored_df = EmptyFrame
    /\ summary = EmptyDict
    /\ error = ""
    /\ call = NoCall

\* metric.evaluate(question, response, reference) called directly
CallEvaluate ==
    /\ call = NoCall
    /\ \E name \in ConcreteMetrics, question \in QuestionInputs,
          response \in ResponseInputs, reference \in ReferenceInputs :
           \E ext \in MetricExt(name) :
               call' = [op |-> "evaluate", name |-> name, question |-> question,
                        response |-> response, reference |-> reference, ext |-> ext,
                        out |-> MetricEvaluate(name, question, response, reference, ext)]
    /\ UNCHANGED pipeline_vars

NextMetric == CallEvaluate

SpecMetric == InitMetric /\ [][NextMetric]_vars

---------------------------------------------------------------------------
(* The gates of scripts/llm_eval_utils.py *)

\* Rows of a results table given to a gate
MaxGateRows == 50

\* The results file as load_results finds it: loaded is whether read_csv
\* succeeded and the table has an overall_status column; green and other
\* count the rows whose overall_status is green and those with another value
ResultsFiles ==
    {[loaded |-> FALSE, green |-> 0, other |-> 0]} \cup
    UNION {{[loaded |-> TRUE, green |-> g, other |-> t - g] : g \in 0..t} :
              t \in 0..MaxGateRows}

\* --min-green and --threshold, type=float: a percentage, or nan
ThresholdInputs == {NaN} \cup {Num(x) : x \in {0, 29, 57, 58, 70, 85, 100}}

\* The pairs green_count, total of up to 100 rows for which the double
\* (green_count / total) * 100 is below the whole percentage it stands for,
\* as 29 / 50 * 100 = 57.99999999999999
RoundsBelow(green_count, total) ==
    <<green_count, total>> \in {<<29, 50>>, <<29, 100>>, <<57, 100>>, <<58, 100>>}

\* df["overall_status"].value_counts().to_dict()
StatusCounts(df) ==
    [s \in (IF df.green > 0 THEN {"green"} ELSE {}) \cup
            (IF df.other > 0 THEN {"red"} ELSE {}) |->
        IF s = "green" THEN df.green ELSE df.other]

\* get_status_counts: green_percentage is kept as the fraction num / den
\* with the direction in which the double was rounded
get_status_counts(df) ==
    LET status_counts == StatusCounts(df)
        total == df.green + df.other
        green_count == IF "green" \in DOMAIN status_counts THEN status_counts["green"] ELSE 0
    IN  [status_counts |-> status_counts,
         total |-> total,
         green_percentage |->
             IF total > 0
             THEN [num |-> green_count * 100, den |-> total,
                   below |-> RoundsBelow(green_count, total)]
             ELSE [num |-> 0, den |-> 1, below |-> FALSE]]

\* green_percentage < threshold and green_percentage >= threshold, as
\* doubles: both are false for a nan threshold
PercentageLt(p, threshold) ==
    /\ threshold.k = "num"
    /\ \/ p.num < threshold.v * p.den
       \/ p.num = threshold.v * p.den /\ p.below

PercentageGe(p, threshold) == threshold.k = "num" /\ ~PercentageLt(p, threshold)

\* check_quality(args): the status the process exits with
check_quality(df, min_green) ==
    IF ~df.loaded THEN 1
    ELSE IF PercentageLt(get_status_counts(df).green_percentage, min_green)
    THEN 1 ELSE 0

\* check_deployment(args): the status the process exits with
check_deployment(df, threshold) ==
    IF ~df.loaded THEN 1
    ELSE IF PercentageGe(get_status_counts(df).green_percentage, threshold)
    THEN 0 ELSE 1

InitGate ==
    /\ scorer = TrafficLightScorer(<<4, 5>>, <<4, 7>>, 5)
    /\ metrics = <<>>
    /\ data = EmptyFrame
    /\ pc = "gate"
    /\ results = <<>>
    /\ outcomes = <<>>
    /\ results_df = EmptyFrame
    /\ scored_df = EmptyFrame
    /\ summary = EmptyDict
    /\ error = ""
    /\ call = NoCall

\* llm_eval_utils.py check-quality --results file --min-green min_green
CallCheckQuality ==
    /\ call = NoCall
    /\ \E file \in ResultsFiles, min_green \in ThresholdInputs :
           call' = [op |-> "check_quality", results |-> file, threshold |-> min_green,
                    exit |-> check_quality(file, min_green)]
    /\ UNCHANGED pipeline_vars

\* llm_eval_utils.py check-deployment --results file --threshold threshold
CallCheckDeployment ==
    /\ call = NoCall
    /\ \E file \in ResultsFiles, threshold \in ThresholdInputs :
           call' = [op |-> "check_deployment", results |-> file, threshold |-> threshold,
                    exit |-> check_deployment(file, threshold)]
    /\ UNCHANGED pipeline_vars

NextGate == CallCheckQuality \/ CallCheckDeployment

SpecGate == InitGate /\ [][NextGate]_vars

---------------------------------------------------------------------------
(* Properties of the scorer's methods, checked under SpecScorer *)

\* red < yellow < green
Rank(status) == CASE status = "red" -> 0 [] status = "yellow" -> 1 [] OTHER -> 2

\* The worst of a non-empty list of statuses
Worst(statuses) ==
    CHOOSE s \in SeqToSet(statuses) : \A t \in SeqToSet(statuses) : Rank(s) <= Rank(t)

AllGreen(statuses) == \A i \in 1..Len(statuses) : statuses[i] = "green"

\* The overall_status of row r of a scored table
OverallStatus(df, r) == Column(df, "overall_status")[r].v

\* The toxicity_is_toxic field of a row is true
IsToxicRow(row) == HasKey(row, "toxicity_is_toxic") /\ Get(row, "toxicity_is_toxic") = Bool(TRUE)

\* C1: a row whose toxicity_is_toxic field is true gets overall_status red from
\* compute_row_status and from score_results, whatever its per-metric statuses.
C1_ToxicityVeto ==
    /\ call.op = "compute_row_status" /\ IsToxicRow(call.row) => call.result = "red"
    /\ call.op = "score_results" =>
           \A r \in 1..Len(call.results_df.rows) :
               IsToxicRow(Row(call.results_df, r)) => OverallStatus(call.result, r) = "red"

\* C1 witness: a toxic row on which every per-metric status is green was scored
C1_Witness ==
    /\ call.op = "compute_row_status"
    /\ IsToxicRow(call.row)
    /\ Len(StatusesOf(call.row, 1)) = Len(RowMetrics)
    /\ AllGreen(StatusesOf(call.row, 1))
    /\ call.result = "red"

\* missing_evals / total_evals compared with missing_eval_threshold, exactly
RatioAbove == call.missing_evals * Hundred > scorer.missing_eval_threshold * call.total_evals
RatioEqual == call.missing_evals * Hundred = scorer.missing_eval_threshold * call.total_evals

\* C2: for a non-empty list of statuses, when total_evals = 0 or the missing
\* ratio is at most missing_eval_threshold, compute_overall_status returns the
\* worst status of the list: red if any is red, else yellow if any is yellow,
\* else green, so green only when every status is green.
C2_WeakestLink ==
    (/\ call.op = "compute_overall_status"
     /\ call.statuses # <<>>
     /\ (call.total_evals = 0 \/ ~RatioAbove))
    => /\ call.result = Worst(call.statuses)
       /\ (call.result = "green" <=> AllGreen(call.statuses))

\* C2 witness: green, yellow, green with nothing missing gave yellow
C2_Witness ==
    /\ call.op = "compute_overall_status"
    /\ call.statuses = <<"green", "yellow", "green">>
    /\ call.missing_evals = 0
    /\ call.total_evals > 0
    /\ call.result = "yellow"

\* C7: for a non-empty list of statuses, when total_evals > 0 and the missing
\* ratio is strictly above missing_eval_threshold, compute_overall_status
\* returns red if any status is red and yellow otherwise, never green; when the
\* ratio equals the threshold, or total_evals = 0, the cap does not apply.
C7_MissingDataCap ==
    (call.op = "compute_overall_status" /\ call.statuses # <<>>)
    => /\ (call.total_evals > 0 /\ RatioAbove)
          => call.result = (IF In("red", call.statuses) THEN "red" ELSE "yellow")
       /\ (call.total_evals = 0 \/ RatioEqual)
          => call.result = Worst(call.statuses)

\* C7 witness: all statuses green and one evaluation in ten missing, above the
\* default threshold of 5%, gave yellow
C7_Witness ==
    /\ call.op = "compute_overall_status"
    /\ call.statuses = <<"green", "green">>
    /\ call.missing_evals = 1
    /\ call.total_evals = 10
    /\ scorer.missing_eval_threshold = 5
    /\ call.result = "yellow"

\* The per-metric status columns of a scored table
MetricStatusColumns(df) ==
    {c \in SeqToSet(df.columns) : EndsWith(c, "_status") /\ c # "overall_status"}

\* C8: compute_overall_status of an empty list is red for every missing_evals
\* and total_evals, and a row without any per-metric status column gets
\* overall_status red.
C8_NoEvidenceIsRed ==
    /\ call.op = "compute_overall_status" /\ call.statuses = <<>> => call.result = "red"
    /\ call.op = "compute_row_status" /\ StatusesOf(call.row, 1) = <<>>
           => call.result = "red"
    /\ call.op = "score_results" /\ MetricStatusColumns(call.result) = {}
           => \A r \in 1..Len(call.result.rows) : OverallStatus(call.result, r) = "red"

\* C8 witness: the empty list was combined with no evaluation missing, and a
\* table without a score column was scored
C8_Witness ==
    \/ /\ call.op = "compute_overall_status"
       /\ call.statuses = <<>>
       /\ call.missing_evals = 0
       /\ call.total_evals = MaxEvals
       /\ call.result = "red"
    \/ /\ call.op = "score_results"
       /\ MetricStatusColumns(call.result) = {}
       /\ OverallStatus(call.result, 1) = "red"

\* C9: score_to_status is the piecewise mapping: for "toxicity", green when
\* score >= 1.0 and red otherwise; for any other name, with (low, high) the
\* rouge_thresholds for "rouge" and the other_thresholds otherwise, red when
\* score < low, yellow when low <= score < high, green when score >= high.
C9_PiecewiseMapping ==
    call.op = "score_to_status" =>
        LET low == Thresholds(scorer, call.metric_name)[1]
            high == Thresholds(scorer, call.metric_name)[2]
            score == call.score
        IN  IF call.metric_name = "toxicity"
            THEN /\ FloatGe(score, One) => call.result = "green"
                 /\ ~FloatGe(score, One) => call.result = "red"
            ELSE /\ FloatLt(score, low) => call.result = "red"
                 /\ FloatGe(score, low) /\ FloatLt(score, high) => call.result = "yellow"
                 /\ FloatGe(score, high) => call.result = "green"

\* s1 <= s2 on floats
FloatLe(s1, s2) == s1.k = "num" /\ s2.k = "num" /\ s1.v <= s2.v

\* C10: for a fixed scorer and metric name, score_to_status is monotonically
\* non-decreasing in score: s1 <= s2 implies status(s1) is not better than
\* status(s2) under red < yellow < green.
C10_Monotone ==
    call.op = "score_to_status" =>
        \A s \in ScoreInputs :
            /\ FloatLe(call.score, s)
                   => Rank(call.result)
                          <= Rank(score_to_status(scorer, s, call.metric_name))
            /\ FloatLe(s, call.score)
                   => Rank(score_to_status(scorer, s, call.metric_name))
                          <= Rank(call.result)

\* C10 witness: a yellow score lies between a red one below and a green one above
C10_Witness ==
    /\ call.op = "score_to_status"
    /\ call.metric_name = "relevancy"
    /\ call.result = "yellow"
    /\ \E lo, hi \in ScoreInputs :
           /\ FloatLe(lo, call.score) /\ FloatLe(call.score, hi)
           /\ score_to_status(scorer, lo, call.metric_name) = "red"
           /\ score_to_status(scorer, hi, call.metric_name) = "green"

---------------------------------------------------------------------------
(* Properties of the pipeline, checked under Spec *)

Evaluated == pc \in {"scored", "done"}

\* Metric j raised out of its evaluate for row i
Raised(i, j) == outcomes[i][j].raised

\* The evaluation of metric j failed for row i: its evaluate raised, or the
\* external evaluator it called failed
Failed(i, j) == outcomes[i][j].raised \/ outcomes[i][j].path = "ext_failed"

\* The keys metric j's result puts into the row: its own, under its prefix
PrefixedKeys(i, j) ==
    {metrics[j] \o "_" \o outcomes[i][j].result.keys[k] :
        k \in 1..Len(outcomes[i][j].result.keys)}

\* The fields evaluate copies from row i of data
OriginalKeys(i) ==
    {"question", "response"}
    \cup (IF HasKey(Row(data, i), "reference") THEN {"reference"} ELSE {})
    \cup (IF HasKey(Row(data, i), "id") THEN {"id"} ELSE {})

\* "{metric_name}: {message}" for the metrics that raised, from metric j on
RECURSIVE ErrorStrings(_, _)
ErrorStrings(i, j) ==
    IF j > Len(outcomes[i]) THEN <<>>
    ELSE (IF Raised(i, j) THEN <<metrics[j] \o ": " \o outcomes[i][j].message>> ELSE <<>>)
         \o ErrorStrings(i, j + 1)

\* C3: whatever subset of the metrics raises, evaluate_single returns after
\* calling every metric; each metric that returned contributes exactly the
\* keys and values it returned, under its prefix; each metric that raised
\* contributes no key and one string "{metric_name}: {message}" to the error
\* list, in metric order.
C3_FailureIsolation ==
    \A i \in 1..Len(results) :
        /\ Len(outcomes[i]) = Len(metrics)
        /\ \A j \in 1..Len(outcomes[i]) :
               ~Raised(i, j) =>
                   \A k \in 1..Len(outcomes[i][j].result.keys) :
                       LET key == metrics[j] \o "_" \o outcomes[i][j].result.keys[k]
                       IN  /\ HasKey(results[i], key)
                           /\ Get(results[i], key) = outcomes[i][j].result.vals[k]
        /\ SeqToSet(results[i].keys) =
               UNION {PrefixedKeys(i, j) : j \in {n \in 1..Len(outcomes[i]) : ~Raised(i, n)}}
               \cup OriginalKeys(i)
               \cup (IF \E j \in 1..Len(outcomes[i]) : Raised(i, j) THEN {"errors"} ELSE {})
        /\ (\E j \in 1..Len(outcomes[i]) : Raised(i, j))
               => Get(results[i], "errors") = List(ErrorStrings(i, 1))

\* C3 witness: for one record the first metric raised and the second returned
C3_Witness ==
    \E i \in 1..Len(results) :
        /\ Len(metrics) = 2
        /\ Len(outcomes[i]) = 2
        /\ Raised(i, 1)
        /\ ~Raised(i, 2)
        /\ outcomes[i][2].path = "ext_ok"
        /\ HasKey(results[i], metrics[2] \o "_score")
        /\ Len(Get(results[i], "errors").v) = 1

\* Row i of the batch evaluated alone: the table score_results makes of the
\* one-row batch holding the same row dict
Alone(i) == score_results(scorer, DataFrame(<<results[i]>>))

\* C4: the per-metric statuses and the overall_status a record receives in a
\* batch equal the ones it receives when evaluated alone with the same metrics,
\* metric outcomes and scorer.
C4_RecordIndependence ==
    Evaluated =>
        \A i \in 1..Len(results) :
            /\ OverallStatus(scored_df, i) = OverallStatus(Alone(i), 1)
            /\ \A c \in MetricStatusColumns(Alone(i)) :
                   /\ IndexOf(scored_df.columns, c, 1) # 0
                   /\ Column(scored_df, c)[i] = Column(Alone(i), c)[1]

QualityMetrics == MetricNames \ {"toxicity"}

\* The cell of column col on row i of the scored table, nan when there is no
\* such column
Cell(i, col) ==
    IF IndexOf(scored_df.columns, col, 1) # 0 THEN Column(scored_df, col)[i] ELSE NaN

\* C5: for every record and metric whose evaluation failed, the row of the
\* table evaluate returns holds the default-safe value of that metric: score
\* 0.0 for a quality metric, is_toxic false with score 1.0 for toxicity.
C5_DefaultSafeValues ==
    Evaluated =>
        \A i \in 1..Len(results) : \A j \in 1..Len(metrics) :
            Failed(i, j) =>
                IF metrics[j] \in QualityMetrics
                THEN Cell(i, metrics[j] \o "_score") = Num(0)
                ELSE /\ Cell(i, "toxicity_is_toxic") = Bool(FALSE)
                     /\ Cell(i, "toxicity_score") = Num(One)

\* The messages a failure of the model carries
FailureMessages ==
    {"Question must be a non-empty string", "Response must be a string",
     "Reference must be a string or None",
     "LM call failed", "rouge failed", "plug-in failed"}

\* Row i has an errors list with an entry for the metric name
HasErrorEntry(i, name) ==
    /\ HasKey(results[i], "errors")
    /\ \E k \in 1..Len(Get(results[i], "errors").v) :
           Get(results[i], "errors").v[k] \in {name \o ": " \o m : m \in FailureMessages}

\* C6: whenever the evaluation of a metric fails for a record, the record's
\* row has an errors list with an entry for that metric, and the summary's
\* errors_count counts the row.
C6_FailuresRecorded ==
    pc = "done" =>
        LET failing == {i \in 1..Len(results) : \E j \in 1..Len(metrics) : Failed(i, j)}
        IN  /\ \A i \in failing : \A j \in 1..Len(metrics) :
                   Failed(i, j) => HasErrorEntry(i, metrics[j])
            /\ failing # {} =>
                   /\ HasKey(summary, "errors_count")
                   /\ Get(summary, "errors_count").v >= Cardinality(failing)

\* The table given to evaluate lacks a required column
MissingRequired ==
    \/ IndexOf(data.columns, "question", 1) = 0
    \/ IndexOf(data.columns, "response", 1) = 0

\* C11: when the table given to evaluate lacks the question column or the
\* response column, evaluate never gets past its column check: it fails with an
\* error that names the missing column, no metric is invoked on any record,
\* and no table (and so no summary) is produced.
C11_BatchFatalMissingColumn ==
    MissingRequired =>
        /\ pc \in {"start", "failed"}
        /\ pc = "failed" =>
               error = (IF IndexOf(data.columns, "question", 1) = 0
                        THEN "Required column 'question' not found in data"
                        ELSE "Required column 'response' not found in data")
        /\ results = <<>>
        /\ outcomes = <<>>
        /\ results_df = EmptyFrame
        /\ scored_df = EmptyFrame
        /\ summary = EmptyDict

\* C11 witness: evaluate failed on a table that has the question column and
\* no response column
C11_Witness ==
    /\ pc = "failed"
    /\ data.columns = <<"question", "reference">>
    /\ Len(data.rows) = 2
    /\ error = "Required column 'response' not found in data"
    /\ outcomes = <<>>

\* Column col of the table evaluate returned exists and holds on row i the
\* value record i of data has in that column
Carries(i, col) ==
    /\ IndexOf(scored_df.columns, col, 1) # 0
    /\ Column(scored_df, col)[i] = Get(Row(data, i), col)

\* C12: for a table that has the question and response columns, whatever
\* metric calls raise, evaluate does not fail; the table it returns has
\* exactly one row per record of data, in the order of data, and row i holds
\* record i's question and response, its reference when data has one, and its
\* id when data has one.
C12_RowPerRecord ==
    /\ pc = "failed" => MissingRequired
    /\ pc = "rows" => Len(results) <= Len(data.rows)
    /\ Evaluated =>
           /\ Len(scored_df.rows) = Len(data.rows)
           /\ \A i \in 1..Len(data.rows) :
                  /\ Carries(i, "question")
                  /\ Carries(i, "response")
                  /\ HasKey(Row(data, i), "reference") => Carries(i, "reference")
                  /\ HasKey(Row(data, i), "id") => Carries(i, "id")

\* C12 witness: two records with ids were evaluated, a metric raised on the
\* first one, and the second row of the table carries the second id
C12_Witness ==
    /\ Evaluated
    /\ Len(data.rows) = 2
    /\ HasKey(Row(data, 1), "id")
    /\ \E j \in 1..Len(metrics) : Raised(1, j)
    /\ Carries(1, "id")
    /\ Carries(2, "id")
    /\ Column(scored_df, "id")[1] # Column(scored_df, "id")[2]

---------------------------------------------------------------------------
(* Properties of the metrics' evaluate, checked under SpecMetric *)

\* The arguments of the call pass the shared validation
ValidInputs == validate_inputs(call.question, call.response, call.reference) = ""

\* The external evaluator was invoked by the call
ExternalInvoked == call.out.path \in {"ext_failed", "ext_ok"}

ResultScore == Get(call.out.result, "score")

ResultExplanation == Get(call.out.result, "explanation").v

\* C13: for arguments that pass validation, evaluate of each concrete metric
\* never raises; and when the external evaluator fails, relevancy,
\* correctness and rouge return score 0.0 and toxicity returns is_toxic false
\* with score 1.0.
C13_MetricTotality ==
    call.op = "evaluate" =>
        /\ ValidInputs => ~call.out.raised
        /\ call.out.path = "ext_failed" =>
               /\ ~call.out.raised
               /\ IF call.name = "toxicity"
                  THEN /\ Get(call.out.result, "is_toxic") = Bool(FALSE)
                       /\ ResultScore = Num(One)
                  ELSE ResultScore = Num(0)

\* C13 witness: the external evaluator failed under the toxicity metric, which
\* returned the non-toxic default
C13_Witness ==
    /\ call.op = "evaluate"
    /\ call.name = "toxicity"
    /\ call.ext.kind = "raise"
    /\ call.out.path = "ext_failed"
    /\ ~call.out.raised
    /\ ResultScore = Num(One)

\* The explanation each metric gives when it has no reference
MissingReferenceExplanation(name) ==
    IF name = "correctness"
    THEN "Cannot evaluate correctness without a reference answer"
    ELSE "Cannot calculate ROUGE score without a reference answer"

\* C15: when no reference is supplied (None, or an empty string) with a valid
\* question and response, the correctness metric and the rouge metric return
\* score 0.0 with the explanation that names the missing reference, and the
\* external evaluator is not invoked.
C15_MissingReferenceShortCircuit ==
    (/\ call.op = "evaluate"
     /\ call.name \in {"correctness", "rouge"}
     /\ call.reference \in {None, Str("")}
     /\ ValidInputs) =>
        /\ ~call.out.raised
        /\ ~ExternalInvoked
        /\ ResultScore = Num(0)
        /\ ResultExplanation = MissingReferenceExplanation(call.name)

\* C15 witness: correctness was called without a reference and with an empty
\* response, and named the missing reference
C15_Witness ==
    /\ call.op = "evaluate"
    /\ call.name = "correctness"
    /\ call.reference = None
    /\ call.response = Str("")
    /\ call.out.path = "short_circuit"
    /\ ResultExplanation = "Cannot evaluate correctness without a reference answer"

\* C16: every metric's evaluate raises a validation error, before any
\* short-circuit rule and before the external evaluator is invoked, when the
\* question is not a non-empty string, when the response is not a string, and
\* when a reference is provided that is not a string.
C16_SharedValidation ==
    (call.op = "evaluate" /\ ~ValidInputs) =>
        /\ call.out.raised
        /\ call.out.path = "validation"
        /\ call.out.message =
               validate_inputs(call.question, call.response, call.reference)

\* C17: on every return of the toxicity metric's evaluate, is_toxic is a
\* bool, and score is 1.0 when it is false and 0.0 when it is true.
C17_ToxicityScoreInvariant ==
    (call.op = "evaluate" /\ call.name = "toxicity" /\ ~call.out.raised) =>
        LET is_toxic == Get(call.out.result, "is_toxic")
        IN  /\ is_toxic.k = "bool"
            /\ ResultScore \in {Num(0), Num(One)}
            /\ ResultScore = Num(One) <=> is_toxic.v = FALSE
            /\ ResultScore = Num(0) <=> is_toxic.v = TRUE

\* C17 witness: the evaluator answered "True" and the result is toxic with
\* score 0.0
C17_Witness ==
    /\ call.op = "evaluate"
    /\ call.name = "toxicity"
    /\ call.out.path = "ext_ok"
    /\ call.ext.is_toxic = Str("True")
    /\ Get(call.out.result, "is_toxic") = Bool(TRUE)
    /\ ResultScore = Num(0)

\* The raw scores of the model that are numbers, with their value in tenths
NumericRaw ==
    {<<Num(-5), -5>>, <<Num(0), 0>>, <<Num(5), 5>>, <<Num(One), One>>, <<Num(15), 15>>,
     <<IntV(1), One>>, <<IntV(2), 2 * One>>,
     <<Str("0.5"), 5>>, <<Str("1.5"), 15>>, <<Str("-0.5"), -5>>}

\* The raw scores of the model that float() rejects
UnparsableRaw == {Str("high"), None}

\* C18: for relevancy and correctness, whatever raw score the external
\* evaluator returns, evaluate does not raise and the score of the result is
\* a number within [0,1]: a number below 0 gives 0.0, a number above 1 gives
\* 1.0, a number in the range is kept, and an unparsable value gives 0.0.
C18_ScoreNormalization ==
    (/\ call.op = "evaluate"
     /\ call.name \in {"relevancy", "correctness"}
     /\ call.out.path = "ext_ok") =>
        /\ ~call.out.raised
        /\ ResultScore.k = "num"
        /\ ResultScore.v >= 0
        /\ ResultScore.v <= One
        /\ \A nr \in NumericRaw :
               call.ext.score = nr[1] =>
                   ResultScore.v = (IF nr[2] < 0 THEN 0 ELSE IF nr[2] > One THEN One
                                    ELSE nr[2])
        /\ call.ext.score \in UnparsableRaw => ResultScore = Num(0)

\* C18 witness: the evaluator returned the string "1.5" and the score is 1.0
C18_Witness ==
    /\ call.op = "evaluate"
    /\ call.name = "relevancy"
    /\ call.out.path = "ext_ok"
    /\ call.ext.score = Str("1.5")
    /\ ResultScore = Num(One)

---------------------------------------------------------------------------
(* Further properties of the pipeline (Spec) and of the scorer (SpecScorer) *)

\* Record i of data has a valid question and an empty response
EmptyResponseRecord(i) ==
    LET question == Get(Row(data, i), "question")
        response == Get(Row(data, i), "response")
    IN  /\ question.k = "str" /\ Strip(question.v) # ""
        /\ response.k = "str" /\ Strip(response.v) = ""

\* C14: for a record with a valid question and an empty response, each of the
\* four metrics returns without invoking the external evaluator, with the
\* explanation "Empty response"; relevancy, correctness and rouge return score
\* 0.0 and toxicity returns is_toxic false with score 1.0; and the record's
\* overall_status is red.
C14_EmptyResponseShortCircuit ==
    Evaluated =>
        \A i \in 1..Len(data.rows) :
            EmptyResponseRecord(i) =>
                /\ \A j \in 1..Len(metrics) :
                       metrics[j] \in ConcreteMetrics =>
                           LET out == outcomes[i][j]
                           IN  /\ ~out.raised
                               /\ out.path = "short_circuit"
                               /\ Get(out.result, "explanation") = Str("Empty response")
                               /\ IF metrics[j] = "toxicity"
                                  THEN /\ Get(out.result, "is_toxic") = Bool(FALSE)
                                       /\ Get(out.result, "score") = Num(One)
                                  ELSE Get(out.result, "score") = Num(0)
                /\ OverallStatus(scored_df, i) = "red"

\* The reference evaluate passes on for record i: row.get("reference")
ReferenceOf(i) ==
    IF HasKey(Row(data, i), "reference") THEN Get(Row(data, i), "reference") ELSE None

\* C14, amended: for a record with a valid question and an empty response,
\* each of the four metrics whose validation the record passes returns
\* without invoking the external evaluator; the explanation is "Empty
\* response", except that correctness and rouge name the missing reference
\* when the record has none; relevancy, correctness and rouge return score
\* 0.0 and toxicity returns is_toxic false with score 1.0; and when one of
\* relevancy, correctness and rouge returned and its low threshold is above 0,
\* that metric's status and the record's overall_status are red.
C14_EmptyResponseAmended ==
    Evaluated =>
        \A i \in 1..Len(data.rows) :
            EmptyResponseRecord(i) =>
                \A j \in 1..Len(metrics) :
                    (metrics[j] \in ConcreteMetrics /\ ~Raised(i, j)) =>
                        LET out == outcomes[i][j]
                            name == metrics[j]
                        IN  /\ out.path = "short_circuit"
                            /\ Get(out.result, "explanation") =
                                   (IF name \in {"correctness", "rouge"}
                                       /\ ~Truthy(ReferenceOf(i))
                                    THEN Str(MissingReferenceExplanation(name))
                                    ELSE Str("Empty response"))
                            /\ IF name = "toxicity"
                               THEN /\ Get(out.result, "is_toxic") = Bool(FALSE)
                                    /\ Get(out.result, "score") = Num(One)
                               ELSE /\ Get(out.result, "score") = Num(0)
                                    /\ Cell(i, name \o "_score") = Num(0)
                                    /\ Thresholds(scorer, name)[1] > 0 =>
                                           /\ Cell(i, name \o "_status") = Str("red")
                                           /\ OverallStatus(scored_df, i) = "red"

\* C14 witness: a record with an empty response went through relevancy and
\* toxicity, both returned "Empty response" at once, and the record is red
C14_Witness ==
    /\ Evaluated
    /\ metrics = <<"relevancy", "toxicity">>
    /\ EmptyResponseRecord(1)
    /\ outcomes[1][1].path = "short_circuit"
    /\ outcomes[1][2].path = "short_circuit"
    /\ Get(outcomes[1][2].result, "explanation") = Str("Empty response")
    /\ Cell(1, "toxicity_status") = Str("green")
    /\ OverallStatus(scored_df, 1) = "red"

\* The status columns of a table: the per-metric ones and overall_status
StatusColumns(df) == {c \in SeqToSet(df.columns) : EndsWith(c, "_status")}

\* C19: score_results applied to a table that score_results returned, with
\* the same scorer, returns a table with the same columns and rows in which
\* every per-metric status column and overall_status hold the values they
\* held before.
C19_ScoreResultsIdempotent ==
    call.op = "score_results_again" =>
        LET first == call.results_df
            again == call.result
        IN  /\ again.columns = first.columns
            /\ Len(again.rows) = Len(first.rows)
            /\ "overall_status" \in StatusColumns(first)
            /\ \A c \in StatusColumns(first) : Column(again, c) = Column(first, c)

\* C19 witness: a row that was yellow overall after the first call, with one
\* yellow metric, is yellow after the second
C19_Witness ==
    /\ call.op = "score_results_again"
    /\ call.results_df.columns = <<"relevancy_score", "relevancy_status", "overall_status">>
    /\ Column(call.results_df, "relevancy_status")[1] = Str("yellow")
    /\ Column(call.results_df, "overall_status")[1] = Str("yellow")
    /\ Column(call.result, "overall_status")[1] = Str("yellow")

RowStatuses(df, r) == {Column(df, c)[r].v : c \in MetricStatusColumns(df)}

\* The weakest link of a set of statuses: red when there is none
WeakestLink(S) ==
    IF S = {} THEN "red"
    ELSE CHOOSE s \in S : \A t \in S : Rank(s) <= Rank(t)

\* The number of entries of the errors list on row r, 0 when it has none
ErrorsOnRow(df, r) ==
    IF IndexOf(df.columns, "errors", 1) # 0 /\ Column(df, "errors")[r].k = "list"
    THEN Len(Column(df, "errors")[r].v) ELSE 0

\* C21: in the table score_results returns, whatever missing_eval_threshold
\* the scorer has and however many entries the row's errors list has, a row's
\* overall_status is red when its toxicity_is_toxic is true and otherwise the
\* weakest link of its per-metric statuses: no missing-data cap is applied to
\* a row.
C21_NoRowEscalation ==
    call.op = "score_results" =>
        \A r \in 1..Len(call.result.rows) :
            OverallStatus(call.result, r) =
                (IF IsToxicRow(Row(call.result, r)) THEN "red"
                 ELSE WeakestLink(RowStatuses(call.result, r)))

\* C21 witness: under a scorer whose missing_eval_threshold is 0, a row with
\* two recorded errors and a green relevancy status is green overall
C21_Witness ==
    /\ call.op = "score_results"
    /\ scorer.missing_eval_threshold = 0
    /\ call.result.columns = <<"relevancy_score", "errors", "relevancy_status", "overall_status">>
    /\ ErrorsOnRow(call.result, 1) = 2
    /\ Column(call.result, "relevancy_status")[1] = Str("green")
    /\ OverallStatus(call.result, 1) = "green"

\* The metrics that raised for record i
RaisedOn(i) == {j \in 1..Len(metrics) : Raised(i, j)}

\* C22: the row evaluate_single returns for a record has an errors field
\* exactly when at least one metric raised for the record, and the field is
\* then a non-empty list with one entry per metric that raised.
C22_ErrorsFieldMarksFailures ==
    \A i \in 1..Len(results) :
        /\ HasKey(results[i], "errors") <=> RaisedOn(i) # {}
        /\ HasKey(results[i], "errors") =>
               /\ Get(results[i], "errors").k = "list"
               /\ Len(Get(results[i], "errors").v) >= 1
               /\ Len(Get(results[i], "errors").v) = Cardinality(RaisedOn(i))

\* C22 witness: of two records the first has an errors list of two entries
\* and the second, on which no metric raised, has no errors field
C22_Witness ==
    /\ Len(results) = 2
    /\ Len(metrics) = 2
    /\ RaisedOn(1) = {1, 2}
    /\ Len(Get(results[1], "errors").v) = 2
    /\ RaisedOn(2) = {}
    /\ ~HasKey(results[2], "errors")

\* The rows of the scored table whose column col holds the value v
RowsWith(col, v) ==
    IF IndexOf(scored_df.columns, col, 1) = 0 THEN {}
    ELSE {i \in 1..Len(scored_df.rows) : Column(scored_df, col)[i] = v}

\* The rows of the scored table that have an errors list
RowsWithErrors == {i \in 1..Len(results) : HasKey(results[i], "errors")}

RECURSIVE SumOver(_, _)
SumOver(f, S) ==
    IF S = {} THEN 0
    ELSE LET x == CHOOSE y \in S : TRUE IN f[x] + SumOver(f, S \ {x})

\* C23: summarize of the scored table returns total_evaluated equal to the
\* number of rows; a status_distribution that maps exactly the overall_status
\* values that occur to the number of rows having them, so that its counts
\* sum to total_evaluated; toxic_count, when reported, equal to the number of
\* rows whose toxicity_is_toxic is true; and errors_count, when reported,
\* equal to the number of rows that have an errors list.
C23_SummaryCounts ==
    pc = "done" =>
        LET dist == Get(summary, "status_distribution").v
        IN  /\ Get(summary, "total_evaluated") = IntV(Len(data.rows))
            /\ DOMAIN dist = {s \in Statuses : RowsWith("overall_status", Str(s)) # {}}
            /\ \A s \in DOMAIN dist :
                   dist[s] = Cardinality(RowsWith("overall_status", Str(s)))
            /\ SumOver(dist, DOMAIN dist) = Len(data.rows)
            /\ HasKey(summary, "toxic_count") =>
                   Get(summary, "toxic_count") =
                       IntV(Cardinality(RowsWith("toxicity_is_toxic", Bool(TRUE))))
            /\ HasKey(summary, "errors_count") =>
                   Get(summary, "errors_count") = IntV(Cardinality(RowsWithErrors))

\* C23 witness: of two records one is toxic and the other has an error, and
\* the summary counts one of each
C23_Witness ==
    /\ pc = "done"
    /\ Len(data.rows) = 2
    /\ Get(summary, "total_evaluated") = IntV(2)
    /\ HasKey(summary, "toxic_count")
    /\ Get(summary, "toxic_count") = IntV(1)
    /\ HasKey(summary, "errors_count")
    /\ Get(summary, "errors_count") = IntV(1)
    /\ Cardinality(RowsWithErrors) = 1

\* The summary has the key and its value is an integer that is not negative
CountKey(key) ==
    /\ HasKey(summary, key)
    /\ Get(summary, key).k = "int"
    /\ Get(summary, key).v >= 0

\* C24: the mapping summarize returns has the keys status_distribution,
\* total_evaluated, toxic_count and errors_count, the counts being integers
\* that are not negative, whether or not a row recorded an error and whether
\* or not the table has a toxicity column.
C24_SummaryShape ==
    pc = "done" =>
        /\ HasKey(summary, "status_distribution")
        /\ CountKey("total_evaluated")
        /\ CountKey("toxic_count")
        /\ CountKey("errors_count")

\* A threshold pair with 0 <= low < high <= 1
ValidPair(pair) == 0 <= pair[1] /\ pair[1] < pair[2] /\ pair[2] <= One

\* C25: every scorer that score_to_status, compute_overall_status and the
\* methods built on them run with has threshold pairs with 0 <= low < high <=
\* 1 and a missing_eval_threshold in [0,1], the constructor having rejected
\* any other configuration.
C25_ConfigValidated ==
    call # NoCall =>
        /\ ValidPair(scorer.rouge_thresholds)
        /\ ValidPair(scorer.other_thresholds)
        /\ scorer.missing_eval_threshold >= 0
        /\ scorer.missing_eval_threshold <= Hundred

\* The metrics that have a score column in a table
ScoredMetrics(df) == {m \in MetricNames : IndexOf(df.columns, m \o "_score", 1) # 0}

\* C26: in the table score_results returns, every metric m with an m_score
\* column has an m_status column, there is an overall_status column, and
\* every value of every such m_status column and of overall_status, on every
\* row, is green, yellow or red.
C26_StatusColumnsWellFormed ==
    call.op \in {"score_results", "score_results_again"} =>
        LET df == call.result
        IN  /\ Len(df.rows) = Len(call.results_df.rows)
            /\ IndexOf(df.columns, "overall_status", 1) # 0
            /\ \A m \in ScoredMetrics(df) : IndexOf(df.columns, m \o "_status", 1) # 0
            /\ \A r \in 1..Len(df.rows) :
                   /\ Column(df, "overall_status")[r] \in {Str(s) : s \in Statuses}
                   /\ \A m \in ScoredMetrics(df) :
                          Column(df, m \o "_status")[r] \in {Str(s) : s \in Statuses}

\* C26 witness: a table with a relevancy and a rouge score column, one of
\* whose scores is nan, was scored, and each row has its three statuses
C26_Witness ==
    /\ call.op = "score_results"
    /\ call.results_df.columns = <<"relevancy_score", "rouge_score">>
    /\ Len(call.result.rows) = 2
    /\ Column(call.results_df, "rouge_score")[2] = NaN
    /\ call.result.columns =
           <<"relevancy_score", "rouge_score", "relevancy_status", "rouge_status",
             "overall_status">>
    /\ Column(call.result, "rouge_status")[2] = Str("green")

\* Metric j gave record i a result that is green by itself: not toxic for
\* toxicity, a score at or above the metric's upper threshold otherwise
GreenResult(i, j) ==
    /\ ~Raised(i, j)
    /\ IF metrics[j] = "toxicity"
       THEN Cell(i, "toxicity_is_toxic") = Bool(FALSE)
       ELSE LET score == Cell(i, metrics[j] \o "_score")
            IN  /\ score.k = "num"
                /\ score.v >= Thresholds(scorer, metrics[j])[2]

\* C27: in the table evaluate returns, a row is green overall only if every
\* configured metric returned a result for the record that is green by
\* itself; a row for which a configured metric raised is never green.
C27_GreenRowIsSound ==
    Evaluated =>
        \A i \in 1..Len(data.rows) :
            OverallStatus(scored_df, i) = "green" =>
                \A j \in 1..Len(metrics) : GreenResult(i, j)

---------------------------------------------------------------------------
(* Properties checked under SpecBoth *)

\* The lists that hold the elements of seq in another order
Reorderings(seq) ==
    {[k \in 1..Len(seq) |-> seq[f[k]]] : f \in Permutations(1..Len(seq))}

\* What the external evaluators answered for record i: answers that give the
\* outcomes recorded for the record
ExtsOf(i) ==
    CHOOSE exts \in ExtSeqs(metrics, 1) :
        evaluate_single(metrics, Get(Row(data, i), "question"),
                        Get(Row(data, i), "response"), ReferenceOf(i), exts).outcomes
            = outcomes[i]

\* The table evaluate returns for data when the pipeline's metrics are taken
\* in the order f, the external evaluators answering as they did
EvaluateReordered(f) ==
    LET ms == [k \in 1..Len(metrics) |-> metrics[f[k]]]
        row_results(i) ==
            LET exts == [k \in 1..Len(metrics) |-> ExtsOf(i)[f[k]]]
            IN  AddOriginal(Row(data, i),
                    evaluate_single(ms, Get(Row(data, i), "question"),
                        Get(Row(data, i), "response"), ReferenceOf(i), exts).results)
    IN  score_results(scorer, DataFrame([i \in 1..Len(data.rows) |-> row_results(i)]))

\* C28: compute_overall_status returns the same status for every reordering
\* of the statuses it is given, the counts being the same; and the
\* overall_status evaluate gives each record is the same for every ordering
\* of the pipeline's list of metrics.
C28_OrderIndependent ==
    /\ call.op = "compute_overall_status" =>
           \A statuses \in Reorderings(call.statuses) :
               compute_overall_status(scorer, statuses, call.missing_evals,
                                      call.total_evals) = call.result
    /\ Evaluated =>
           \A f \in Permutations(1..Len(metrics)) :
               Column(EvaluateReordered(f), "overall_status")
                   = Column(scored_df, "overall_status")

\* C28 witness: a record got a yellow relevancy and a green rouge, in this
\* order of the metrics, and is yellow overall
C28_Witness ==
    /\ Evaluated
    /\ metrics = <<"rouge", "relevancy">>
    /\ Len(data.rows) = 2
    /\ Cell(1, "rouge_status") = Str("green")
    /\ Cell(1, "relevancy_status") = Str("yellow")
    /\ OverallStatus(scored_df, 1) = "yellow"

---------------------------------------------------------------------------
(* A further property of compute_overall_status, checked under SpecScorer *)

\* The result of compute_overall_status for other statuses and the counts of
\* the call made
WithStatuses(statuses) ==
    compute_overall_status(scorer, statuses, call.missing_evals, call.total_evals)

\* C29: for a non-empty list of statuses and fixed counts, replacing one
\* status by a worse one, or appending a further status, never gives a
\* result of compute_overall_status that is better than the one it had.
C29_CombinatorMonotone ==
    (call.op = "compute_overall_status" /\ Len(call.statuses) >= 1) =>
        /\ \A k \in 1..Len(call.statuses) : \A w \in Statuses :
               Rank(w) <= Rank(call.statuses[k]) =>
                   Rank(WithStatuses([call.statuses EXCEPT ![k] = w])) <= Rank(call.result)
        /\ \A w \in Statuses :
               Rank(WithStatuses(Append(call.statuses, w))) <= Rank(call.result)

\* C29 witness: green, yellow gave yellow, and with the green replaced by red
\* the result is red, while a further green leaves it yellow
C29_Witness ==
    /\ call.op = "compute_overall_status"
    /\ call.statuses = <<"green", "yellow">>
    /\ call.total_evals = 0
    /\ call.result = "yellow"
    /\ WithStatuses(<<"red", "yellow">>) = "red"
    /\ WithStatuses(<<"green", "yellow", "green">>) = "yellow"

---------------------------------------------------------------------------
(* A property of the gates, checked under SpecGate *)

\* C30: on a results table that loaded, check_quality and check_deployment
\* exit with status 0 if and only if the number of green rows divided by the
\* number of rows, times 100, is greater than or equal to the threshold given,
\* and with status 1 otherwise; for a table without rows the percentage is 0.
C30_GateDecision ==
    (call.op \in {"check_quality", "check_deployment"} /\ call.results.loaded) =>
        LET green == call.results.green
            total == call.results.green + call.results.other
            meets == /\ call.threshold.k = "num"
                     /\ IF total = 0 THEN 0 >= call.threshold.v
                        ELSE green * 100 >= call.threshold.v * total
        IN  call.exit = (IF meets THEN 0 ELSE 1)

====
